---- MODULE Spec2Model ----
(***************************************************************************)
(* Model of the crawl engine of src/scraper_app.py: the Streamlit button   *)
(* handler, crawl_website_streamlit with its frontier queue, visited set,  *)
(* accumulator and output file, and the helpers fetch_html,                *)
(* clean_html_text and find_internal_links.                                *)
(*                                                                         *)
(* A URL string is a sequence of tokens, e.g. "http://a/p#x" is            *)
(* <<"http", ":", "//", "a", "/p", "#", "x">>; urlparse, urlunparse and    *)
(* urljoin work on these token sequences.  A cleaned text is modelled by   *)
(* its length.                                                             *)
(***************************************************************************)
EXTENDS Integers, Sequences, FiniteSets, TLC

\* ---------------------------------------------------------------- bounds
\* max_pages ranges over 1..MaxPagesBound
MaxPagesBound == 3
\* text lengths and min_text_length range over 0..MaxTextLen
MaxTextLen == 2
\* number of times the "Start Crawling" button is pressed (SpecRerun)
MaxRuns == 2

\* ------------------------------------------------------- program constants
DEFAULT_OUTPUT_FILE == "scraped_content.jsonl"
MinMaxPages == 1
MinMinTextLength == 0

\* --------------------------------------------------------- URL strings
PathTokens == {"/", "/p", "/q", "/r", "a/p"}
uses_relative == {"", "http", "https", "ftp"}
uses_netloc == {"", "http", "https", "ftp"}

Range(s) == {s[i] : i \in 1..Len(s)}

\* urllib.parse.urlparse: scheme, netloc, path and fragment of a URL string
urlparse(url) ==
    LET hasScheme == Len(url) >= 2 /\ url[2] = ":"
        scheme == IF hasScheme THEN url[1] ELSE ""
        r1 == IF hasScheme THEN Tail(Tail(url)) ELSE url
        hasSlashes == Len(r1) >= 1 /\ r1[1] = "//"
        netloc == IF hasSlashes /\ Len(r1) >= 2 /\ r1[2] \notin PathTokens
                     /\ r1[2] # "#"
                  THEN r1[2] ELSE ""
        r2 == IF ~hasSlashes THEN r1
              ELSE IF netloc # "" THEN Tail(Tail(r1)) ELSE Tail(r1)
        path == IF Len(r2) >= 1 /\ r2[1] # "#" THEN r2[1] ELSE ""
        r3 == IF path # "" THEN Tail(r2) ELSE r2
        fragment == IF Len(r3) >= 2 /\ r3[1] = "#" THEN r3[2] ELSE ""
    IN [scheme |-> scheme, netloc |-> netloc, path |-> path,
        fragment |-> fragment]

\* urllib.parse.urlunparse / ParseResult.geturl: the string of the components
urlunparse(p) ==
    (IF p.scheme # "" THEN <<p.scheme, ":">> ELSE <<>>)
    \o (IF p.netloc # "" THEN <<"//", p.netloc>>
        ELSE IF p.scheme # "" /\ p.scheme \in uses_netloc THEN <<"//">>
        ELSE <<>>)
    \o (IF p.path # "" THEN <<p.path>> ELSE <<>>)
    \o (IF p.fragment # "" THEN <<"#", p.fragment>> ELSE <<>>)

\* urllib.parse.urljoin for references whose path is absolute
urljoin(base, url) ==
    IF base = <<>> THEN url
    ELSE IF url = <<>> THEN base
    ELSE LET b == urlparse(base)
             u0 == urlparse(url)
             u == [u0 EXCEPT !.scheme = IF u0.scheme = "" THEN b.scheme
                                        ELSE u0.scheme]
         IN IF u.scheme # b.scheme \/ u.scheme \notin uses_relative THEN url
            ELSE IF u.scheme \in uses_netloc /\ u.netloc # ""
                 THEN urlunparse(u)
            ELSE IF u.path = ""
                 THEN urlunparse([u EXCEPT !.netloc = b.netloc,
                                           !.path = b.path])
            ELSE urlunparse([u EXCEPT !.netloc = b.netloc])

\* str.strip(): leading and trailing whitespace tokens removed
RECURSIVE lstrip(_)
lstrip(s) == IF s # <<>> /\ Head(s) = " " THEN lstrip(Tail(s)) ELSE s

RECURSIVE rstrip(_)
rstrip(s) ==
    IF s # <<>> /\ s[Len(s)] = " " THEN rstrip(SubSeq(s, 1, Len(s) - 1))
    ELSE s

strip(s) == rstrip(lstrip(s))

\* href.startswith(('#', 'mailto:', 'tel:', 'javascript:'))
startswith_skipped(href) ==
    /\ href # <<>>
    /\ \/ href[1] = "#"
       \/ /\ Len(href) >= 2
          /\ href[2] = ":"
          /\ href[1] \in {"mailto", "tel", "javascript"}

\* ------------------------------------------------- the site being crawled
\* hrefs of anchor tags, as written in the documents
HrefP == <<"/p">>
HrefR == <<"/r">>
HrefPFrag == <<"/p", "#", "x">>
HrefQPadded == <<" ", "/q", " ">>
HrefHome == <<"http", ":", "//", "a", "/">>
HrefOtherHost == <<"http", ":", "//", "b", "/p">>
HrefFtp == <<"ftp", ":", "//", "a", "/q">>
HrefMailto == <<"mailto", ":", "x">>
HrefFragOnly == <<"#", "x">>
HrefBlank == <<" ">>

\* the anchors of a document, in document order
AnchorLists ==
    { <<HrefP, HrefQPadded>>,
      <<HrefPFrag, HrefHome, HrefP>>,
      <<HrefOtherHost, HrefMailto, HrefFragOnly, HrefFtp, HrefBlank, HrefR>> }

\* what readability extracts from a document: NoText when it raises, else
\* the length of the cleaned text
NoText == -1
TextLens == {NoText} \cup (0..MaxTextLen)

HtmlBodies == [text : TextLens, anchors : AnchorLists]

\* no body arrives when the request fails
NoBody == [text |-> NoText, anchors |-> <<>>]

\* the body of a response whose content type is not HTML: a text that
\* would pass as a page if it were processed
OtherBody == [text |-> MaxTextLen, anchors |-> <<HrefP, HrefQPadded>>]

\* what session.get meets at a URL
Responses ==
    [kind : {"timeout", "http_error"}, body : {NoBody}]
    \cup [kind : {"non_html"}, body : {OtherBody}]
    \cup [kind : {"html"}, body : HtmlBodies]

\* Optional values: None is <<>>, a value v is <<v>>
None == <<>>
Some(v) == <<v>>

\* the request drops the fragment: the resource a URL string names
Resource(url) == urlunparse([urlparse(url) EXCEPT !.fragment = ""])

\* ------------------------------------------------------------ helpers
\* fetch_html: the body of an HTML response, None for everything else
fetch_htmlAnyType(response) ==
    IF response.kind \in {"html", "non_html"} THEN Some(response.body)
    ELSE None

fetch_html(response) ==
    IF response.kind = "html" THEN Some(response.body) ELSE None

\* clean_html_text: the cleaned text (its length), None when html is empty
\* or the extraction raises
clean_html_text(html) ==
    IF html = None THEN NoText
    ELSE html[1].text

\* the truth value of a cleaned text: None and '' are false
TextTruthy(cleaned_text) == cleaned_text # NoText /\ cleaned_text # 0

\* line 159: the page is saved and mined for links
PassesThresholdNoMin(cleaned_text, min_len) == TextTruthy(cleaned_text)

PassesThresholdStrict(cleaned_text, min_len) ==
    TextTruthy(cleaned_text) /\ cleaned_text > min_len

PassesThreshold(cleaned_text, min_len) ==
    TextTruthy(cleaned_text) /\ cleaned_text >= min_len

\* line 103: scheme and host test of a resolved link
IsInternalAnyHost(parsed_url, base_domain) ==
    parsed_url.scheme \in {"http", "https"}

IsInternal(parsed_url, base_domain) ==
    /\ parsed_url.scheme \in {"http", "https"}
    /\ parsed_url.netloc = base_domain

\* line 104: the link without its fragment
CleanUrl(parsed_url) == urlunparse([parsed_url EXCEPT !.fragment = ""])

\* find_internal_links: the set `links` built by the loop over the anchors
find_internal_links(html, base_url) ==
    IF html = None THEN {}
    ELSE LET base_domain == urlparse(base_url).netloc
             hrefs == {strip(a) : a \in Range(html[1].anchors)}
             kept == {h \in hrefs : h # <<>> /\ ~startswith_skipped(h)}
         IN IF base_domain = "" THEN {}
            ELSE {CleanUrl(urlparse(urljoin(base_url, h))) :
                    h \in {k \in kept :
                             IsInternal(urlparse(urljoin(base_url, k)),
                                        base_domain)}}

\* list(links): a set is listed in an order that depends on the string
\* hashes of the process, so any order of its elements
ListOf(S) ==
    {s \in [1..Cardinality(S) -> S] : \A i, j \in 1..Cardinality(S) :
                                         s[i] = s[j] => i = j}

\* ------------------------------------------------------------- state
VARIABLES
    start_url,            \* sidebar: Start URL
    max_pages,            \* sidebar: Max Pages to Scrape
    min_text_length,      \* sidebar: Min Text Length to Save
    pc,                   \* idle, loop, final, done
    queue,                \* the frontier
    visited_urls,
    pages_scraped_count,
    data_saved_count,
    all_results,          \* the accumulator
    crawl_error_occurred,
    write_error,
    result_file_path,     \* what crawl_website_streamlit returned
    status,               \* the last message of status_placeholder
    download_offered,     \* download_placeholder holds the button
    file,                 \* the output file: [exists, lines]
    site,                 \* the responses the site has given, per resource
    events,               \* this run's file and network calls, in order
    enqueued,             \* this run's appends to the queue, in order
    depth,                \* this run's discovery depth of each URL
    run,                  \* number of the current run
    prev_file,            \* the output file as the previous run left it
    prev_status           \* the status the previous run ended with

config == <<start_url, max_pages, min_text_length>>
locals == <<queue, visited_urls, pages_scraped_count, data_saved_count,
            all_results, crawl_error_occurred, write_error>>
ghosts == <<events, enqueued, depth>>
runs == <<run, prev_file, prev_status>>
vars == <<config, pc, locals, result_file_path, status, download_offered,
          file, site, ghosts, runs>>

\* the start URLs tried: two valid ones, one without a scheme, one without
\* a host
StartUrls ==
    { <<"http", ":", "//", "a", "/">>,
      <<"http", ":", "//", "a", "/", "#", "x">>,
      <<"a/p">>,
      <<"http", ":", "//", "/p">> }

\* a line another crawl left in the output file
StaleLine == <<"url", <<"http", ":", "//", "b", "/">>, "text", 1>>

NoFile == [exists |-> FALSE, lines |-> <<>>]
EmptyFile == [exists |-> TRUE, lines |-> <<>>]

Init ==
    /\ start_url \in StartUrls
    /\ max_pages \in MinMaxPages..MaxPagesBound
    /\ min_text_length \in MinMinTextLength..MaxTextLen
    /\ pc = "idle"
    /\ queue = <<>>
    /\ visited_urls = {}
    /\ pages_scraped_count = 0
    /\ data_saved_count = 0
    /\ all_results = <<>>
    /\ crawl_error_occurred = FALSE
    /\ write_error = FALSE
    /\ result_file_path = None
    /\ status = "idle"
    /\ download_offered = FALSE
    /\ file \in {NoFile, [exists |-> TRUE, lines |-> <<StaleLine>>]}
    /\ site = <<>>
    /\ events = <<>>
    /\ enqueued = <<>>
    /\ depth = <<>>
    /\ run = 1
    /\ prev_file = NoFile
    /\ prev_status = "idle"

\* ------------------------------------------------- Start Crawling button
\* lines 273-281: the start URL has a scheme and a host
is_valid_url(url) ==
    urlparse(url).scheme # "" /\ urlparse(url).netloc # ""

\* lines 131-142: what a failed clear of the output file leads to
AfterClearFailedGoesOn == "loop"

AfterClearFailed == "done"

\* The button handler up to the crawl loop: validation (271-283), the
\* locals of crawl_website_streamlit (115-121), the clear of the output
\* file (131-142).
StartCrawling ==
    /\ pc = "idle"
    /\ \/ /\ ~is_valid_url(start_url)
          /\ status' = "invalid_url"
          /\ pc' = "done"
          /\ UNCHANGED <<locals, result_file_path, file, ghosts>>
       \/ /\ is_valid_url(start_url)
          /\ queue' = <<start_url>>
          /\ visited_urls' = {start_url}
          /\ pages_scraped_count' = 0
          /\ data_saved_count' = 0
          /\ all_results' = <<>>
          /\ write_error' = FALSE
          /\ enqueued' = <<start_url>>
          /\ depth' = (start_url :> 0)
          /\ \/ /\ file' = EmptyFile
                /\ events' = Append(events, [op |-> "clear", url |-> <<>>])
                /\ crawl_error_occurred' = FALSE
                /\ status' = "starting"
                /\ pc' = "loop"
                /\ UNCHANGED result_file_path
             \/ /\ events' =
                      Append(events, [op |-> "clear_failed", url |-> <<>>])
                /\ crawl_error_occurred' = TRUE
                /\ status' = "clear_error"
                /\ result_file_path' = None
                /\ pc' = AfterClearFailed
                /\ UNCHANGED file
    /\ UNCHANGED <<config, download_offered, site, runs>>

\* -------------------------------------------------------- the crawl loop
\* line 146: the loop condition
LoopCondOffByOne(q, count, limit) == q # <<>> /\ count <= limit

LoopCondQueueOnly(q, count, limit) == q # <<>>

LoopCond(q, count, limit) == q # <<>> /\ count < limit

\* line 168: the link has not been seen
NotVisitedAlways(link, visited) == TRUE

NotVisited(link, visited) == link \notin visited

\* line 170: queue.append(link)
EnqueueLeft(q, link) == <<link>> \o q

EnqueueDropped(q, link) == q

Enqueue(q, link) == Append(q, link)

\* lines 167-171: the links not yet visited are added to visited_urls and
\* appended to the queue, in the order of the list; `new` lists them
RECURSIVE MergeLinks(_, _, _)
MergeLinks(internal_links, visited, q) ==
    IF internal_links = <<>>
    THEN [visited |-> visited, queue |-> q, new |-> <<>>]
    ELSE LET link == Head(internal_links)
         IN IF NotVisited(link, visited)
            THEN LET r == MergeLinks(Tail(internal_links),
                                     visited \cup {link}, Enqueue(q, link))
                 IN [r EXCEPT !.new = <<link>> \o @]
            ELSE MergeLinks(Tail(internal_links), visited, q)

\* line 154, session.get: a static site answers a resource as it did before
SiteAnswers(url, response) ==
    IF Resource(url) \in DOMAIN site
    THEN response = site[Resource(url)]
    ELSE response \in Responses

\* line 184: the politeness pause is taken
SleepCondQueueOnly(q, count, limit) == q # <<>>

SleepCond(q, count, limit) == q # <<>> /\ count < limit

\* lines 154 and 184-185: the events of an iteration that fetched
IterationEvents(current_url, q, count) ==
    events \o <<[op |-> "fetch", url |-> current_url]>>
           \o (IF SleepCond(q, count, max_pages)
               THEN <<[op |-> "sleep", url |-> <<>>]>> ELSE <<>>)

\* the depth of the links first discovered on a page
DepthWith(current_url, new) ==
    [u \in DOMAIN depth \cup Range(new) |->
        IF u \in DOMAIN depth THEN depth[u] ELSE depth[current_url] + 1]

\* lines 147-152 raise (a progress or status update fails): the except
\* clause of line 187 ends the loop before the fetch
IterationUiError ==
    /\ queue' = Tail(queue)
    /\ pages_scraped_count' = pages_scraped_count + 1
    /\ crawl_error_occurred' = TRUE
    /\ status' = "crawl_error"
    /\ pc' = "final"
    /\ UNCHANGED <<visited_urls, data_saved_count, all_results, site, ghosts>>

\* lines 154-180 without a save: no HTML (180), no text (178) or a text
\* below the threshold (176)
IterationSkip(current_url, response) ==
    LET html == fetch_html(response)
        cleaned_text == clean_html_text(html)
    IN /\ \/ html = None
          \/ html # None /\ ~TextTruthy(cleaned_text)
          \/ /\ html # None
             /\ TextTruthy(cleaned_text)
             /\ ~PassesThreshold(cleaned_text, min_text_length)
       /\ queue' = Tail(queue)
       /\ pages_scraped_count' = pages_scraped_count + 1
       /\ events' = IterationEvents(current_url, Tail(queue),
                                    pages_scraped_count + 1)
       /\ status' = "scraping"
       /\ UNCHANGED <<visited_urls, data_saved_count, all_results,
                      crawl_error_occurred, pc, enqueued, depth>>

\* lines 159-173: the page is saved and its links are merged
IterationSave(current_url, response) ==
    LET html == fetch_html(response)
        cleaned_text == clean_html_text(html)
    IN /\ html # None
       /\ PassesThreshold(cleaned_text, min_text_length)
       /\ all_results' =
              Append(all_results, [url |-> current_url, text |-> cleaned_text])
       /\ data_saved_count' = data_saved_count + 1
       /\ pages_scraped_count' = pages_scraped_count + 1
       /\ \/ \E internal_links \in ListOf(find_internal_links(html,
                                                                current_url)) :
                LET m == MergeLinks(internal_links, visited_urls, Tail(queue))
                IN /\ visited_urls' = m.visited
                   /\ queue' = m.queue
                   /\ enqueued' = enqueued \o m.new
                   /\ depth' = DepthWith(current_url, m.new)
                   /\ events' = IterationEvents(current_url, m.queue,
                                                pages_scraped_count + 1)
                   /\ status' = "scraping"
                   /\ UNCHANGED <<crawl_error_occurred, pc>>
          \/ \* find_internal_links raises (the parse of line 86)
             /\ queue' = Tail(queue)
             /\ events' = Append(events, [op |-> "fetch", url |-> current_url])
             /\ crawl_error_occurred' = TRUE
             /\ status' = "crawl_error"
             /\ pc' = "final"
             /\ UNCHANGED <<visited_urls, enqueued, depth>>

\* one iteration of the while loop of line 146
CrawlIteration ==
    /\ pc = "loop"
    /\ LoopCond(queue, pages_scraped_count, max_pages)
    /\ \/ /\ IterationUiError
       \/ \E response \in Responses :
             /\ SiteAnswers(Head(queue), response)
             /\ site' = (Resource(Head(queue)) :> response) @@ site
             /\ \/ IterationSkip(Head(queue), response)
                \/ IterationSave(Head(queue), response)
    /\ UNCHANGED <<config, write_error, result_file_path, download_offered,
                   file, runs>>

\* the loop condition fails: the finally clause (193-202) and on
LoopExit ==
    /\ pc = "loop"
    /\ ~LoopCond(queue, pages_scraped_count, max_pages)
    /\ pc' = "final"
    /\ UNCHANGED <<config, locals, result_file_path, status, download_offered,
                   file, site, ghosts, runs>>

\* ---------------------------------------------------------- finalization
\* line 206: the final write is attempted
ShouldWriteAlways(error_occurred) == TRUE

ShouldWrite(error_occurred) == ~error_occurred

\* line 210: json.dumps(item) of a record
JsonLine(item) == <<"url", item.url, "text", item.text>>

\* lines 209-210: one line per record, in the order of the list
FileLinesNewestFirst(results) ==
    [i \in 1..Len(results) |-> JsonLine(results[Len(results) + 1 - i])]

FileLines(results) == [i \in 1..Len(results) |-> JsonLine(results[i])]

\* lines 221-239: the last status message
FinalStatusQueueFirst(error_occurred, w_error) ==
    IF ~error_occurred /\ ~w_error
    THEN IF queue = <<>> THEN "finished_no_more_links"
         ELSE IF pages_scraped_count >= max_pages
              THEN "finished_max_pages"
              ELSE "finished"
    ELSE IF w_error THEN "write_error"
    ELSE status

FinalStatus(error_occurred, w_error) ==
    IF ~error_occurred /\ ~w_error
    THEN IF queue = <<>> /\ pages_scraped_count < max_pages
         THEN "finished_no_more_links"
         ELSE IF pages_scraped_count >= max_pages
              THEN "finished_max_pages"
              ELSE "finished"
    ELSE IF w_error THEN "write_error"
    ELSE status

\* lines 243-246: the path returned
ReturnedDespiteCrawlError(error_occurred, w_error) ==
    IF ~w_error THEN Some(DEFAULT_OUTPUT_FILE) ELSE None

ReturnedDespiteWriteError(error_occurred, w_error) ==
    IF ~error_occurred THEN Some(DEFAULT_OUTPUT_FILE) ELSE None

Returned(error_occurred, w_error) ==
    IF ~error_occurred /\ ~w_error THEN Some(DEFAULT_OUTPUT_FILE) ELSE None

\* lines 204-246, and the caller's download button (305-321)
Finalize ==
    /\ pc = "final"
    /\ \/ /\ ShouldWrite(crawl_error_occurred)
          /\ file' = [exists |-> TRUE, lines |-> FileLines(all_results)]
          /\ events' = Append(events, [op |-> "write", url |-> <<>>])
          /\ write_error' = FALSE
       \/ /\ ShouldWrite(crawl_error_occurred)
          /\ \E k \in 0..Len(all_results) :
                file' = [exists |-> file.exists \/ k > 0,
                         lines |-> SubSeq(FileLines(all_results), 1, k)]
          /\ events' = Append(events, [op |-> "write_failed", url |-> <<>>])
          /\ write_error' = TRUE
       \/ /\ ~ShouldWrite(crawl_error_occurred)
          /\ write_error' = FALSE
          /\ UNCHANGED <<file, events>>
    /\ status' = FinalStatus(crawl_error_occurred, write_error')
    /\ result_file_path' = Returned(crawl_error_occurred, write_error')
    /\ download_offered' = (result_file_path' # None /\ file'.exists)
    /\ pc' = "done"
    /\ UNCHANGED <<config, queue, visited_urls, pages_scraped_count,
                   data_saved_count, all_results, crawl_error_occurred, site,
                   enqueued, depth, runs>>

\* the button is pressed again: the script reruns with the same sidebar
Rerun ==
    /\ pc = "done"
    /\ run < MaxRuns
    /\ run' = run + 1
    /\ prev_file' = file
    /\ prev_status' = status
    /\ pc' = "idle"
    /\ queue' = <<>>
    /\ visited_urls' = {}
    /\ pages_scraped_count' = 0
    /\ data_saved_count' = 0
    /\ all_results' = <<>>
    /\ crawl_error_occurred' = FALSE
    /\ write_error' = FALSE
    /\ result_file_path' = None
    /\ status' = "idle"
    /\ download_offered' = FALSE
    /\ events' = <<>>
    /\ enqueued' = <<>>
    /\ depth' = <<>>
    /\ UNCHANGED <<config, file, site>>

Next == StartCrawling \/ CrawlIteration \/ LoopExit \/ Finalize

Spec == Init /\ [][Next]_vars

NextRerun == Next \/ Rerun

SpecRerun == Init /\ [][NextRerun]_vars

\* ------------------------------------------------------ derived values
\* the URLs fetched in this run, in order
FetchEvents == SelectSeq(events, LAMBDA e : e.op = "fetch")

Fetched == [i \in 1..Len(FetchEvents) |-> FetchEvents[i].url]

\* the links the page saved as all_results[i] holds
LinksOfSaved(i) ==
    find_internal_links(fetch_html(site[Resource(all_results[i].url)]),
                        all_results[i].url)

\* ---------------------------------------------------------------- claims
\* C1 (no-revisit): no URL string is appended to the frontier queue more
\* than once in a run, the seed's initial enqueue included.
C1_NoRevisit ==
    \A i, j \in 1..Len(enqueued) : enqueued[i] = enqueued[j] => i = j

\* C1 witness: a saved page links back to the seed, and two saved pages of
\* the run link to the same URL.
C1_Witness ==
    /\ Len(enqueued) >= 2
    /\ \E i \in 1..Len(all_results) : start_url \in LinksOfSaved(i)
    /\ \E i, j \in 1..Len(all_results) :
          i # j /\ LinksOfSaved(i) \cap LinksOfSaved(j) # {}

\* C2 (budget respected): pages_scraped_count never exceeds max_pages, and
\* no more than max_pages fetches are issued in a run.
C2_BudgetRespected ==
    /\ pages_scraped_count <= max_pages
    /\ Len(Fetched) <= max_pages

\* C2 witness: the budget ended the loop while discovered links were still
\* waiting in the frontier.
C2_Witness ==
    /\ pc = "done"
    /\ max_pages >= 2
    /\ pages_scraped_count = max_pages
    /\ Len(Fetched) = max_pages
    /\ queue # <<>>

\* C3 (BFS order): the URLs are fetched in the order they were enqueued,
\* a URL is never fetched after one of greater discovery depth, and every
\* URL still in the frontier is at least as deep as the URL fetched last.
C3_BfsOrder ==
    LET f == Fetched
    IN /\ Len(f) <= Len(enqueued)
       /\ f = SubSeq(enqueued, 1, Len(f))
       /\ \A i \in 1..(Len(f) - 1) : depth[f[i]] <= depth[f[i + 1]]
       /\ f # <<>> =>
             \A k \in 1..Len(queue) : depth[f[Len(f)]] <= depth[queue[k]]

\* C3 witness: a URL of depth 1 is fetched third while a URL of depth 2,
\* discovered before that fetch, waits in the frontier.
C3_Witness ==
    /\ Len(Fetched) = 3
    /\ depth[Fetched[3]] = 1
    /\ \E k \in 1..Len(queue) : depth[queue[k]] = 2

\* the body fetch_html returns for a URL the site s has answered
HtmlIn(s, url) == fetch_html(s[Resource(url)])

\* the cleaned text (length) of a URL the site s has answered
TextIn(s, url) == clean_html_text(HtmlIn(s, url))

\* the same for the URLs fetched so far in this run
HtmlOf(url) == HtmlIn(site, url)

TextOf(url) == TextIn(site, url)

\* the URLs of the records accumulated
SavedUrls == {all_results[i].url : i \in 1..Len(all_results)}

\* this step is a loop iteration that fetched the head of the queue
FetchStep == pc = "loop" /\ Len(Fetched') = Len(Fetched) + 1

\* this step saved the page fetched and merged all links of it
SavedAndMined(url) ==
    /\ all_results' =
           Append(all_results, [url |-> url, text |-> TextIn(site', url)])
    /\ \/ crawl_error_occurred'
       \/ /\ find_internal_links(HtmlIn(site', url), url)
                \subseteq visited_urls'
          /\ \A l \in find_internal_links(HtmlIn(site', url), url)
                         \ visited_urls : l \in Range(queue')

\* this step neither saved the page fetched nor took a link from it
NothingKept ==
    /\ all_results' = all_results
    /\ visited_urls' = visited_urls
    /\ queue' = Tail(queue)
    /\ enqueued' = enqueued

\* C4 as claimed (threshold gate, for every min_text_length including 0):
\* a step that fetches a page whose text length is min_text_length - 1
\* keeps nothing of it, and a step that fetches a page whose text length is
\* exactly min_text_length saves it and enqueues its unseen links (unless
\* link discovery raises).
C4_Original ==
    [][FetchStep /\ TextIn(site', Head(queue)) # NoText =>
         /\ TextIn(site', Head(queue)) = min_text_length - 1 => NothingKept
         /\ TextIn(site', Head(queue)) = min_text_length =>
                SavedAndMined(Head(queue))]_vars

\* C4 as amended: the same, for pages whose text is not empty; a page
\* with an empty text is never saved, whatever min_text_length is.
C4_ThresholdGate ==
    [][FetchStep /\ TextIn(site', Head(queue)) # NoText =>
         /\ TextIn(site', Head(queue)) = min_text_length - 1 => NothingKept
         /\ TextIn(site', Head(queue)) = 0 => NothingKept
         /\ TextIn(site', Head(queue)) = min_text_length /\ min_text_length > 0 =>
                SavedAndMined(Head(queue))]_vars

\* C4 witness: with min_text_length = 2, a page of text length 2 was saved
\* and its links were enqueued, and a page of text length 1 was fetched and
\* not saved.
C4_Witness ==
    /\ min_text_length = 2
    /\ ~crawl_error_occurred
    /\ \E i, j \in 1..Len(Fetched) :
          /\ TextOf(Fetched[i]) = 2
          /\ Fetched[i] \in SavedUrls
          /\ find_internal_links(HtmlOf(Fetched[i]),
                                 Fetched[i]) \ {start_url} # {}
          /\ TextOf(Fetched[j]) = 1
          /\ Fetched[j] \notin SavedUrls

\* C5 (domain filter): every URL of the frontier, of the visited set and
\* of the log of enqueues has the host (netloc) of the start URL.
C5_DomainFilter ==
    \A u \in visited_urls \cup Range(queue) \cup Range(enqueued) :
        urlparse(u).netloc = urlparse(start_url).netloc

\* C5 witness: a saved page holds an anchor to another host beside a
\* same-host anchor, and the same-host link was enqueued from it.
C5_Witness ==
    \E i \in 1..Len(all_results) :
        /\ HrefOtherHost \in Range(HtmlOf(all_results[i].url)[1].anchors)
        /\ LinksOfSaved(i) # {}
        /\ LinksOfSaved(i) \subseteq Range(enqueued)
        /\ all_results[i].url \notin LinksOfSaved(i)

\* C6 as claimed (fragment normalization): no two URLs that entered the
\* frontier in a run, the seed included, differ only in their fragment.
C6_FragmentNormalization ==
    \A i, j \in 1..Len(enqueued) :
        Resource(enqueued[i]) = Resource(enqueued[j]) => i = j

\* the outcome of the run, once it has ended
RunOutcome ==
    IF pc # "done" THEN "Running"
    ELSE IF status \in {"invalid_url", "clear_error"} THEN "AbortedBeforeStart"
    ELSE IF crawl_error_occurred THEN "AbortedDuringRun"
    ELSE "Completed"

\* C7 as claimed (idempotent overwrite): when two successive runs with the
\* same configuration over a static site both complete and write their
\* results, the second leaves the output file as the first left it.
C7_IdempotentOverwrite ==
    (/\ run = 2
     /\ pc = "done"
     /\ prev_status \in {"finished_no_more_links", "finished_max_pages"}
     /\ status \in {"finished_no_more_links", "finished_max_pages"})
    => file = prev_file

\* the operations of the events logged
Ops == {events[i].op : i \in 1..Len(events)}

\* this step is a loop iteration whose fetch met no HTML response
FailedFetchStep == FetchStep /\ site'[Resource(Head(queue))].kind # "html"

\* C8 (fetch failure is not fatal): an iteration whose fetch meets a
\* timeout, an HTTP error or a non-HTML response counts the page, saves
\* nothing, sets no error and stays in the loop; and a run whose seed fetch
\* failed ends Completed with one page attempted, none saved, an empty
\* accumulator and an output file that exists and is empty.
C8_FetchFailureNotFatal ==
    /\ [][FailedFetchStep =>
            /\ pages_scraped_count' = pages_scraped_count + 1
            /\ NothingKept
            /\ data_saved_count' = data_saved_count
            /\ ~crawl_error_occurred'
            /\ pc' = "loop"]_vars
    /\ [](pc = "done" /\ Len(Fetched) >= 1
            /\ site[Resource(start_url)].kind # "html" =>
            /\ RunOutcome = "Completed"
            /\ pages_scraped_count = 1
            /\ data_saved_count = 0
            /\ all_results = <<>>
            /\ Len(Fetched) = 1
            /\ file = EmptyFile)

\* C8 witness: the second fetch of a run timed out, the third page was
\* fetched and saved after it, and the run ended Completed.
C8_Witness ==
    /\ RunOutcome = "Completed"
    /\ Len(Fetched) = 3
    /\ site[Resource(Fetched[2])].kind = "timeout"
    /\ Fetched[2] \notin SavedUrls
    /\ Fetched[3] \in SavedUrls

\* C9 (setup failure precedes network activity): the clear of the output
\* file is the first call of a run and precedes every fetch; a run whose
\* start URL lacks a scheme or host, or whose clear failed, issues no
\* fetch, attempts no final write, returns no path, and ends as
\* AbortedBeforeStart.
C9_SetupFailure ==
    LET ops == Ops
    IN /\ events # <<>> => events[1].op \in {"clear", "clear_failed"}
       /\ \A i \in 2..Len(events) :
             events[i].op \notin {"clear", "clear_failed"}
       /\ (~is_valid_url(start_url) \/ "clear_failed" \in ops) =>
             /\ ops \subseteq {"clear_failed"}
             /\ Fetched = <<>>
             /\ result_file_path = None
             /\ ~download_offered
             /\ pc \in {"idle", "done"}
             /\ pc = "done" => RunOutcome = "AbortedBeforeStart"
       /\ (~is_valid_url(start_url) => events = <<>>)

\* C9 witness: the clear of the output file failed and the run has ended,
\* the stale file untouched.
C9_Witness ==
    /\ pc = "done"
    /\ "clear_failed" \in Ops
    /\ status = "clear_error"
    /\ file.lines = <<StaleLine>>

\* C10 as claimed (finalization on abort): a run that ended as
\* AbortedDuringRun has flushed its accumulated records to the output
\* file, one line per record in accumulation order.
C10_Original ==
    RunOutcome = "AbortedDuringRun" =>
        file = [exists |-> TRUE, lines |-> FileLines(all_results)]

\* C10 as amended: a run that ended as AbortedDuringRun keeps its records
\* in the accumulator only: no final write is attempted, the output file
\* stays empty as the clear at the start of the run left it, and no path
\* is returned.
C10_AbortKeepsNoOutput ==
    RunOutcome = "AbortedDuringRun" =>
        /\ "write" \notin Ops /\ "write_failed" \notin Ops
        /\ file = EmptyFile
        /\ Len(all_results) = data_saved_count
        /\ all_results = [i \in 1..Len(all_results) |->
                             [url |-> all_results[i].url,
                              text |-> TextOf(all_results[i].url)]]
        /\ result_file_path = None

\* C10 witness: a run aborted in the loop after it had saved two records.
C10_Witness ==
    /\ RunOutcome = "AbortedDuringRun"
    /\ status = "crawl_error"
    /\ Len(all_results) = 2
    /\ file = EmptyFile

\* an exception was caught by the except clause of the crawl loop
LoopAborted == crawl_error_occurred /\ status # "clear_error"

\* C11 (no partial results on mid-run failure): once an exception has
\* ended the crawl loop, no final write is attempted, the output file is
\* and stays the empty file the clear at the start of the run produced
\* (no stale line, no record of this run), no path is returned and no
\* download is offered.
C11_NoPartialResults ==
    LoopAborted =>
        /\ pc \in {"final", "done"}
        /\ file = EmptyFile
        /\ events[Len(events)].op \in {"clear", "fetch", "sleep"}
        /\ result_file_path = None
        /\ ~download_offered

\* C11 witness: a run that had saved a record was aborted by an exception
\* before the fetch of its second page, and has ended.
C11_Witness ==
    /\ pc = "done"
    /\ LoopAborted
    /\ Len(all_results) = 1
    /\ pages_scraped_count = 2
    /\ Len(events) = 3
    /\ file.lines = <<>>

Succeeded == pc = "done" /\ ~crawl_error_occurred /\ ~write_error
                /\ status # "invalid_url"

\* C13 as claimed (termination reason): a run that completed and wrote its
\* results reports "no more links" whenever the loop ended with an empty
\* frontier and "max page limit" whenever it ended with
\* pages_scraped_count = max_pages, and never the generic message.
C13_Original ==
    Succeeded =>
        /\ status \in {"finished_no_more_links", "finished_max_pages"}
        /\ queue = <<>> => status = "finished_no_more_links"
        /\ pages_scraped_count = max_pages => status = "finished_max_pages"

\* C13 as amended: such a run reports "max page limit" exactly when
\* pages_scraped_count = max_pages, also when the frontier is empty too,
\* and "no more links" exactly when the frontier is empty and
\* pages_scraped_count < max_pages; the generic message is never produced;
\* a Completed run whose final write failed reports the write error and no
\* reason.
C13_TerminationReason ==
    /\ Succeeded =>
          /\ status \in {"finished_no_more_links", "finished_max_pages"}
          /\ status = "finished_max_pages" <=>
                 pages_scraped_count = max_pages
          /\ status = "finished_no_more_links" <=>
                 (queue = <<>> /\ pages_scraped_count < max_pages)
    /\ (RunOutcome = "Completed" /\ write_error) => status = "write_error"
    /\ status # "finished"

\* C13 witness: the loop ended with an empty frontier and with the budget
\* used up, both at once, and the run reported the page limit.
C13_Witness ==
    /\ Succeeded
    /\ queue = <<>>
    /\ pages_scraped_count = max_pages
    /\ max_pages = 2
    /\ status = "finished_max_pages"

\* the fetch_html and time.sleep calls of the run, in order
FetchesAndPauses ==
    SelectSeq(events, LAMBDA e : e.op \in {"fetch", "sleep"})

\* fetches and pauses alternate, a fetch first: exactly one pause between
\* two consecutive fetches
Alternate(fp) ==
    \A i \in 1..Len(fp) : fp[i].op = (IF i % 2 = 1 THEN "fetch" ELSE "sleep")

\* C14 as claimed (politeness delay): exactly one pause between any two
\* consecutive fetches, and no pause after the last fetch of a run that
\* has left the loop.
C14_Original ==
    LET fp == FetchesAndPauses
    IN /\ Alternate(fp)
       /\ (pc \in {"final", "done"} /\ fp # <<>>) => fp[Len(fp)].op = "fetch"

\* C14 as amended: exactly one pause between any two consecutive fetches;
\* the pause after an iteration is taken exactly when the loop condition
\* holds, that is when another iteration follows; a pause follows the last
\* fetch of a run only when that next iteration raised before its fetch.
C14_PolitenessDelay ==
    LET fp == FetchesAndPauses
    IN /\ Alternate(fp)
       /\ (pc = "loop" /\ fp # <<>>) =>
              (fp[Len(fp)].op = "sleep" <=>
                  LoopCond(queue, pages_scraped_count, max_pages))
       /\ (pc \in {"final", "done"} /\ fp # <<>>
              /\ fp[Len(fp)].op = "sleep") =>
              /\ LoopAborted
              /\ pages_scraped_count = (Len(fp) \div 2) + 1

\* C14 witness: a run of three fetches with a pause after the first and
\* after the second, none after the third, has ended without an abort.
C14_Witness ==
    /\ pc = "done"
    /\ ~crawl_error_occurred
    /\ Len(FetchesAndPauses) = 5
    /\ FetchesAndPauses[5].op = "fetch"
    /\ FetchesAndPauses[4].op = "sleep"

\* C15 as claimed (task lifecycle): when a run has Completed, every URL
\* appended to the queue was appended once and has been dequeued.
C15_Original ==
    RunOutcome = "Completed" =>
        /\ \A i, j \in 1..Len(enqueued) : enqueued[i] = enqueued[j] => i = j
        /\ queue = <<>>
        /\ pages_scraped_count = Len(enqueued)

\* C15 as amended: every URL is appended to the queue at most once and
\* dequeued at most once, in the order of the appends; the URLs not yet
\* dequeued are the queue, and a run ends with URLs left in the queue only
\* when the page budget was reached or the run was aborted.
C15_TaskLifecycle ==
    /\ \A i \in 1..Len(enqueued) : \A j \in 1..(i - 1) :
           enqueued[i] # enqueued[j]
    /\ pages_scraped_count <= Len(enqueued)
    /\ queue = SubSeq(enqueued, pages_scraped_count + 1, Len(enqueued))
    /\ (pc = "done" /\ queue # <<>>) =>
           \/ pages_scraped_count = max_pages
           \/ crawl_error_occurred

\* C15 witness: a run Completed on the page budget with two URLs still in
\* the queue, never dequeued.
C15_Witness ==
    /\ RunOutcome = "Completed"
    /\ pages_scraped_count = max_pages
    /\ Len(queue) = 2
    /\ Len(enqueued) = pages_scraped_count + 2

\* every call of the loop body returns (fetch_html has a timeout, line 40),
\* so an enabled step of the run is eventually taken
SpecFair == Spec /\ WF_vars(Next)

\* C16 (termination): a run that entered the crawl loop eventually reaches
\* its end, after at most max_pages iterations (each one increments
\* pages_scraped_count by one), and the loop is left only with an empty
\* queue, with the page budget used up, or on an exception.
C16_Termination ==
    /\ (pc = "loop") ~> (pc = "done")
    /\ [](pages_scraped_count <= max_pages)
    /\ [][(pc = "loop" /\ pc' = "loop") =>
              pages_scraped_count' = pages_scraped_count + 1]_vars
    /\ [][(pc = "loop" /\ pc' # "loop") =>
              \/ queue' = <<>>
              \/ pages_scraped_count' >= max_pages
              \/ crawl_error_occurred']_vars

\* C16 witness: a run on a site whose pages link to each other in a cycle
\* ended on the page budget with links still in the queue.
C16_Witness ==
    /\ pc = "done"
    /\ pages_scraped_count = max_pages
    /\ max_pages = MaxPagesBound
    /\ queue # <<>>
    /\ \E i \in 1..Len(all_results) :
           all_results[i].url \in LinksOfSaved(i)

\* lines 90-106: the links of the anchors in the order the loop over
\* soup.find_all('a', href=True) meets them, each link once
RECURSIVE links_in_anchor_order(_, _, _)
links_in_anchor_order(anchors, base_url, seen) ==
    IF anchors = <<>> THEN <<>>
    ELSE LET href == strip(Head(anchors))
             parsed_url == urlparse(urljoin(base_url, href))
             base_domain == urlparse(base_url).netloc
             link == CleanUrl(parsed_url)
         IN IF /\ href # <<>>
               /\ ~startswith_skipped(href)
               /\ base_domain # ""
               /\ IsInternal(parsed_url, base_domain)
               /\ link \notin seen
            THEN <<link>> \o links_in_anchor_order(Tail(anchors), base_url,
                                                   seen \cup {link})
            ELSE links_in_anchor_order(Tail(anchors), base_url, seen)

\* C17 (discovery order): an iteration that saves a page appends its links
\* not yet visited to the queue in the order their anchors stand in the
\* document.
C17_DiscoveryOrder ==
    [][(FetchStep /\ Len(enqueued') > Len(enqueued)) =>
          SubSeq(enqueued', Len(enqueued) + 1, Len(enqueued')) =
              SelectSeq(links_in_anchor_order(
                            HtmlIn(site', Head(queue))[1].anchors,
                            Head(queue), {}),
                        LAMBDA l : l \notin visited_urls)]_vars

\* the page at url, as the site s answers it, is one the loop skips: no
\* HTML (line 180), no text extracted (line 178), or a text shorter than
\* min_text_length (line 176)
Skipped(s, url) ==
    \/ s[Resource(url)].kind # "html"
    \/ TextIn(s, url) = NoText
    \/ TextIn(s, url) = 0
    \/ TextIn(s, url) < min_text_length

\* C18 (skipped pages have no effect beyond the dequeue): an iteration
\* that fetches such a page leaves visited_urls and all_results as they
\* were and removes only the head from the queue; of the counters only
\* pages_scraped_count moves, by one; no error is set and the loop goes on.
C18_SkippedPageFrame ==
    [][(FetchStep /\ Skipped(site', Head(queue))) =>
          /\ NothingKept
          /\ pages_scraped_count' = pages_scraped_count + 1
          /\ data_saved_count' = data_saved_count
          /\ pc' = "loop"
          /\ UNCHANGED <<config, depth, crawl_error_occurred, write_error,
                         result_file_path, file>>]_vars

\* C18 witness: after a saved seed, a page whose extraction gave nothing
\* and a page with a text shorter than min_text_length were fetched, both
\* carrying links, and the run holds the one record of the seed.
C18_Witness ==
    /\ Len(Fetched) = 3
    /\ Len(all_results) = 1
    /\ data_saved_count = 1
    /\ pages_scraped_count = 3
    /\ site[Resource(Fetched[2])].kind = "html"
    /\ TextOf(Fetched[2]) = NoText
    /\ TextOf(Fetched[3]) = 1
    /\ min_text_length = 2
    /\ find_internal_links(HtmlOf(Fetched[3]), Fetched[3]) \ visited_urls # {}

\* the URLs dequeued so far
Dequeued == {enqueued[i] : i \in 1..pages_scraped_count}

\* C19 (visited-set accounting): visited_urls is the URLs dequeued plus
\* the URLs in the queue, the two being disjoint and the queue without
\* repeats, so len(visited_urls) = pages_scraped_count + len(queue); and
\* len(visited_urls), the count the success message shows, is the number
\* of appends to the queue.
C19_VisitedAccounting ==
    /\ pages_scraped_count <= Len(enqueued)
    /\ visited_urls = Dequeued \cup Range(queue)
    /\ Dequeued \cap Range(queue) = {}
    /\ Cardinality(visited_urls) = pages_scraped_count + Len(queue)
    /\ Cardinality(visited_urls) = Len(enqueued)

\* C19 witness: a run ended with success after two pages, with two more
\* URLs seen and left in the queue.
C19_Witness ==
    /\ Succeeded
    /\ pages_scraped_count = 2
    /\ Len(queue) = 2
    /\ Cardinality(visited_urls) = 4

\* the records accumulated have pairwise distinct URLs and stand in the
\* order their URLs were dequeued; the counters agree with them
RecordsInDequeueOrder ==
    /\ data_saved_count = Len(all_results)
    /\ data_saved_count <= pages_scraped_count
    /\ pages_scraped_count <= max_pages
    /\ \A j \in 1..Len(all_results) : \A i \in 1..(j - 1) :
           \E b \in 1..pages_scraped_count : \E a \in 1..(b - 1) :
               /\ enqueued[a] = all_results[i].url
               /\ enqueued[b] = all_results[j].url
    /\ \A j \in 1..Len(all_results) : \A i \in 1..(j - 1) :
           all_results[i].url # all_results[j].url

\* line i of lines is the JSON object of the i-th record accumulated
HoldsRecords(lines) ==
    \A i \in 1..Len(lines) :
        /\ i <= Len(all_results)
        /\ lines[i] = <<"url", all_results[i].url,
                        "text", all_results[i].text>>

\* C20 as claimed (output content of a Completed run): the file holds
\* exactly one line per saved record, in dequeue order, with pairwise
\* distinct URLs, as many lines as data_saved_count, and
\* data_saved_count <= pages_scraped_count <= max_pages.
C20_Original ==
    RunOutcome = "Completed" =>
        /\ RecordsInDequeueOrder
        /\ file.exists
        /\ Len(file.lines) = data_saved_count
        /\ HoldsRecords(file.lines)

\* C20 as amended: that holds of a Completed run whose final write
\* succeeded; when the final write failed the file holds the lines of the
\* first records only, possibly none.
C20_OutputContent ==
    /\ pc # "idle" => RecordsInDequeueOrder
    /\ Succeeded =>
          /\ file.exists
          /\ Len(file.lines) = data_saved_count
          /\ HoldsRecords(file.lines)
    /\ (RunOutcome = "Completed" /\ write_error) =>
          /\ Len(file.lines) <= data_saved_count
          /\ HoldsRecords(file.lines)

\* C20 witness: a run of three pages skipped the second and wrote the
\* records of the first and the third, two lines.
C20_Witness ==
    /\ Succeeded
    /\ pages_scraped_count = 3
    /\ data_saved_count = 2
    /\ Len(file.lines) = 2
    /\ file.lines[2][2] = enqueued[3]

====
